---- MODULE Spec2Model ----
(***************************************************************************)
(* Model of the data-insights pipeline: the two collectors' persisted      *)
(* output, the processed_data asset, DataProcessor (load, normalisation,   *)
(* keyword matching, report building, artifact writes), the keyword       *)
(* extractors and the data_quality_check asset.                            *)
(*                                                                         *)
(* A text is a sequence of one-character strings, so that lower-casing,    *)
(* the alphanumeric filter and the whitespace split are computed character *)
(* by character as the code does.  Python's None is the value NoneVal.     *)
(* A DataFrame is the sequence of its rows (records); pd.DataFrame() with  *)
(* no columns is the empty sequence.  A float score is the exact fraction  *)
(* [num, den] it is computed from.                                         *)
(***************************************************************************)
EXTENDS Integers, Sequences, FiniteSets, TLC

VARIABLES
    pc,                 \* position of the run
    github_file,        \* data/raw/github_repos.json
    kaggle_file,        \* data/raw/kaggle_datasets.json
    all_datasets,       \* KaggleScraper.scrape_datasets: the list being built
    tag_idx,            \* KaggleScraper.scrape_datasets: search tags done
    seen_again,         \* scrape_datasets: a listed dataset was already in the list
                        \* from an earlier tag (the test of line 68 was false)
    github_count,       \* value of asset github_raw_data
    kaggle_count,       \* value of asset kaggle_raw_data
    github_data,        \* process_data: loaded repository records
    kaggle_data,        \* process_data: loaded dataset records
    load_failure,       \* which open/json.load raised in load_data
    github_df,          \* normalised repositories
    kaggle_df,          \* normalised datasets
    scores,             \* find_relationships: similarity_score of every pair visited
    relationships_df,   \* result of find_relationships
    top_github,
    top_kaggle,
    top_relationships,
    metrics,
    artifacts,          \* data/processed/*.csv written in this run
    error,              \* the exception that ended the run, "" if none
    steps,              \* operations of process_data that have been called
    kw_text,            \* _extract_keywords: argument text
    kw_max,             \* _extract_keywords: argument max_keywords
    kw_result,          \* _extract_keywords: returned string
    hash_seed,          \* the str hash salt of the interpreter running process_data
    tie_order,          \* the order the library gave to equal keys, per call and keys
    first_artifacts,    \* the artifacts of the earlier run of process_data, if any
    quality_results     \* value of asset data_quality_check

scrapeVars == <<github_file, kaggle_file, all_datasets, tag_idx, seen_again,
                github_count, kaggle_count>>
loadVars == <<github_data, kaggle_data, load_failure>>
tableVars == <<github_df, kaggle_df>>
matchVars == <<scores, relationships_df>>
reportVars == <<top_github, top_kaggle, top_relationships, metrics>>
kwVars == <<kw_text, kw_max, kw_result>>
runVars == <<hash_seed, tie_order, first_artifacts>>
vars == <<pc, scrapeVars, loadVars, tableVars, matchVars, reportVars,
          artifacts, error, steps, kwVars, runVars, quality_results>>

---------------------------------------------------------------------------
(* Bounds of the model.                                                    *)

MaxRepos == 2       \* repositories the repository collector returns
MaxPerTag == 2      \* datasets the API lists for one tag
MaxWords == 10      \* keywords of one record in the matching specification
MaxChunks == 4      \* whitespace-separated chunks of a text given to _extract_keywords
MaxKeywords == 3    \* largest max_keywords given to _extract_keywords
MaxRunRepos == 1    \* repositories in the raw file of a run that is repeated or checked
HashSeeds == 2      \* salts the interpreter may draw for its str hashes
MaxColumns == 5     \* columns of a CSV file that is not an artifact
MaxEmptyFields == 2 \* empty fields in the row of such a file
MaxUnreadable == 1  \* files whose read fails in one quality check

\* PYTHONHASHSEED is unset: the interpreter salts str hashes with a value it
\* draws at start
Seeds == 0..(HashSeeds - 1)

---------------------------------------------------------------------------
(* Characters and texts.                                                   *)

UpperChars == <<"A","B","C","D","E","F","G","H","I","J","K","L","M",
                "N","O","P","Q","R","S","T","U","V","W","X","Y","Z">>
LowerChars == <<"a","b","c","d","e","f","g","h","i","j","k","l","m",
                "n","o","p","q","r","s","t","u","v","w","x","y","z">>
DigitChars == <<"0","1","2","3","4","5","6","7","8","9">>

Range(s) == {s[i] : i \in DOMAIN s}

\* str.lower() on one character
Lower(c) ==
    IF c \in Range(UpperChars)
    THEN LowerChars[CHOOSE i \in DOMAIN UpperChars : UpperChars[i] = c]
    ELSE c

\* str.isalnum() on one character
IsAlnum(c) == c \in Range(UpperChars) \cup Range(LowerChars) \cup Range(DigitChars)

NoneVal == <<"None">>
EmptyText == <<>>

\* an f-string field: str(None) is "None"
Format(x) == IF x = NoneVal THEN <<"N","o","n","e">> ELSE x

\* ''.join(c if c.isalnum() else ' ' for c in text.lower())
CleanText(text) ==
    [i \in DOMAIN text |->
        IF IsAlnum(Lower(text[i])) THEN Lower(text[i]) ELSE " "]

\* str.split(): the maximal runs of non-space characters, in order
SplitWords(s) ==
    LET RECURSIVE go(_, _, _)
        go(i, cur, acc) ==
            IF i > Len(s)
            THEN IF cur = <<>> THEN acc ELSE Append(acc, cur)
            ELSE IF s[i] = " "
                 THEN go(i + 1, <<>>, IF cur = <<>> THEN acc ELSE Append(acc, cur))
                 ELSE go(i + 1, Append(cur, s[i]), acc)
    IN go(1, <<>>, <<>>)

\* sep.join(parts)
RECURSIVE Join(_, _)
Join(parts, sep) ==
    IF parts = <<>> THEN <<>>
    ELSE IF Len(parts) = 1 THEN parts[1]
    ELSE parts[1] \o sep \o Join(Tail(parts), sep)

CommaSpace == <<",", " ">>
Space == <<" ">>

\* s[:n] and DataFrame.head(n), for n >= 0
Prefix(s, n) == IF Len(s) <= n THEN s ELSE SubSeq(s, 1, n)

---------------------------------------------------------------------------
(* DataProcessor._extract_keywords                                         *)

common_words == {
    <<"t","h","e">>, <<"a">>, <<"a","n">>, <<"a","n","d">>, <<"o","r">>,
    <<"b","u","t">>, <<"i","n">>, <<"o","n">>, <<"a","t">>, <<"t","o">>,
    <<"f","o","r">>, <<"w","i","t","h">>, <<"b","y">>,
    <<"a","b","o","u","t">>, <<"a","s">>, <<"o","f">>, <<"t","h","a","t">>,
    <<"t","h","i","s">>, <<"i","s">>, <<"a","r","e">>, <<"w","a","s">>,
    <<"w","e","r","e">>, <<"b","e">>, <<"b","e","e","n">>,
    <<"b","e","i","n","g">>, <<"h","a","v","e">>, <<"h","a","s">>,
    <<"h","a","d">>, <<"d","o">>, <<"d","o","e","s">>, <<"d","i","d">>,
    <<"w","i","l","l">>, <<"w","o","u","l","d">>,
    <<"s","h","o","u","l","d">>, <<"c","a","n">>, <<"c","o","u","l","d">> }

MinLen == 3     \* a keyword is longer than this

\* number of occurrences of w in the word list ws
Count(ws, w) == Cardinality({i \in DOMAIN ws : ws[i] = w})

\* index of the first occurrence of w in ws
FirstIndex(ws, w) == CHOOSE i \in DOMAIN ws : ws[i] = w /\ \A j \in 1..(i-1) : ws[j] # w

\* the keys of word_freq in insertion order: the distinct words in order of first occurrence
DictKeys(ws) ==
    LET keep(i) == \A j \in 1..(i-1) : ws[j] # ws[i]
        RECURSIVE go(_)
        go(i) == IF i > Len(ws) THEN <<>>
                 ELSE IF keep(i) THEN <<ws[i]>> \o go(i + 1) ELSE go(i + 1)
    IN go(1)

\* a faulty variant: ties come out in reverse first-occurrence order
SortedByFreqReversedTies(keys, ws) ==
    LET RECURSIVE insert(_, _)
        insert(sorted, k) ==
            IF sorted = <<>> THEN <<k>>
            ELSE IF Count(ws, sorted[1]) > Count(ws, k)
                 THEN <<sorted[1]>> \o insert(Tail(sorted), k)
                 ELSE <<k>> \o sorted
        RECURSIVE go(_, _)
        go(i, acc) == IF i > Len(keys) THEN acc ELSE go(i + 1, insert(acc, keys[i]))
    IN go(1, <<>>)

\* sorted(items, key=count, reverse=True): Python's sort is stable, and reverse=True
\* keeps equal keys in their original order; computed as an insertion sort
SortedByFreq(keys, ws) ==
    LET RECURSIVE insert(_, _)
        insert(sorted, k) ==
            IF sorted = <<>> THEN <<k>>
            ELSE IF Count(ws, sorted[1]) >= Count(ws, k)
                 THEN <<sorted[1]>> \o insert(Tail(sorted), k)
                 ELSE <<k>> \o sorted
        RECURSIVE go(_, _)
        go(i, acc) == IF i > Len(keys) THEN acc ELSE go(i + 1, insert(acc, keys[i]))
    IN go(1, <<>>)

\* words: the cleaned text split; keywords: neither common nor short
KeywordTokens(text) ==
    LET words == SplitWords(CleanText(text))
        isKeyword(w) == w \notin common_words /\ Len(w) > MinLen
    IN SelectSeq(words, isKeyword)

\* top_keywords[:max_keywords] for max_keywords >= 0
TopKeywords(text, max_keywords) ==
    LET keywords == KeywordTokens(text)
        top_keywords == SortedByFreq(DictKeys(keywords), keywords)
    IN Prefix(top_keywords, max_keywords)

\* _extract_keywords(text, max_keywords); a non-str or empty text gives ""
ExtractKeywordsOf(text, max_keywords) ==
    IF text = NoneVal \/ text = EmptyText THEN EmptyText
    ELSE Join(TopKeywords(text, max_keywords), CommaSpace)

DefaultMaxKeywords == 10

\* DataProcessor._extract_text_keywords
ExtractTextKeywords(text) ==
    IF text = NoneVal \/ text = EmptyText THEN <<>>
    ELSE LET isLong(w) == Len(w) > MinLen
         IN SelectSeq(SplitWords(CleanText(text)), isLong)

---------------------------------------------------------------------------
(* Fractions: a float quotient of two small integers is modelled by the    *)
(* exact fraction.  Division is correctly rounded, so equal fractions give *)
(* equal doubles, and two fractions with denominators this small that      *)
(* differ are further apart than one ulp, so the order is the exact one.   *)

Frac(n, d) == [num |-> n, den |-> d]
FracGt(a, b) == a.num * b.den > b.num * a.den
FracEq(a, b) == a.num * b.den = b.num * a.den
FracGe(a, b) == a.num * b.den >= b.num * a.den

\* the literal 0.1 of find_relationships, in tenths
MinSimilarityTenths == 1
Max2(a, b) == IF a >= b THEN a ELSE b

---------------------------------------------------------------------------
(* DataFrame.sort_values(key, ascending=False).  The default kind is       *)
(* 'quicksort', which pandas documents as not stable: rows with equal keys *)
(* may come out in any order.  keys[i] is the fraction row i is sorted by. *)

\* a faulty variant: ascending order
RECURSIVE ArrangementsAsc(_, _)
ArrangementsAsc(keys, S) ==
    IF S = {} THEN {<<>>}
    ELSE UNION { { <<i>> \o t : t \in ArrangementsAsc(keys, S \ {i}) } :
                 i \in {j \in S : \A k \in S : FracGe(keys[k], keys[j])} }

\* every order of the indices S in which the keys never increase
RECURSIVE ArrangementsDesc(_, _)
ArrangementsDesc(keys, S) ==
    IF S = {} THEN {<<>>}
    ELSE UNION { { <<i>> \o t : t \in ArrangementsDesc(keys, S \ {i}) } :
                 i \in {j \in S : \A k \in S : FracGe(keys[j], keys[k])} }

\* the rows of df in the order perm, one of ArrangementsDesc
SortValuesDesc(df, perm) == [i \in DOMAIN df |-> df[perm[i]]]

\* Which of the admissible orders comes out is not specified, but the sort is a
\* function of the key column: the same call on the same keys gives the same
\* order again.  tie_order holds the [call, arg, result] seen so far.
Memoized(call, arg, outcomes) ==
    IF \E m \in tie_order : m.call = call /\ m.arg = arg
    THEN {m.result : m \in {n \in tie_order : n.call = call /\ n.arg = arg}}
    ELSE outcomes

Memo(call, arg, result) == [call |-> call, arg |-> arg, result |-> result]

\* the one stable descending order: equal keys keep their original order
RECURSIVE StableDesc(_, _)
StableDesc(keys, S) ==
    IF S = {} THEN <<>>
    ELSE LET best == {j \in S : \A k \in S : FracGe(keys[j], keys[k])}
             i == CHOOSE j \in best : \A k \in best : j <= k
         IN <<i>> \o StableDesc(keys, S \ {i})

StableSortDesc(df, keys) ==
    LET perm == StableDesc(keys, DOMAIN df) IN [i \in DOMAIN df |-> df[perm[i]]]

---------------------------------------------------------------------------
(* Raw records.  Only the fields the processor derives from, sorts by or   *)
(* matches on are kept; full_name, url, forks, created_at, size, owner and *)
(* licence are copied through unchanged by the code and are left out.      *)

wData == <<"d","a","t","a">>
wCode == <<"c","o","d","e">>
wDeep == <<"d","e","e","p">>

ValidDate == "2024-01-01"
MalformedDate == "not-a-date"
NoLanguage == "<None>"      \* repo.language is None

\* languages: a sequence of [lang, bytes]
RepoA == [name |-> <<"m","l">>, description |-> wData \o Space \o wCode,
          topics |-> <<wDeep>>,
          readme_content |-> <<"D","a","t","a"," ">> \o wData \o Space \o wCode
                             \o <<" ","w","i","t","h"," ","t","h","e"," ","m","l">>,
          stars |-> 500, updated_at |-> ValidDate, primary_language |-> "Python",
          languages |-> <<[lang |-> "Python", bytes |-> 100]>>]
RepoB == [name |-> <<"l","a","b">>, description |-> NoneVal, topics |-> <<>>,
          readme_content |-> EmptyText,
          stars |-> 500, updated_at |-> ValidDate, primary_language |-> NoLanguage,
          languages |-> <<>>]
RepoC == [name |-> <<"a","i">>, description |-> wDeep \o Space \o wData,
          topics |-> <<>>, readme_content |-> EmptyText,
          stars |-> 30, updated_at |-> ValidDate, primary_language |-> "R",
          languages |-> <<[lang |-> "R", bytes |-> 7]>>]
\* a repository whose languages mapping sums to zero bytes
RepoBad == [name |-> <<"b","a","d">>, description |-> wData, topics |-> <<>>,
            readme_content |-> EmptyText,
            stars |-> 7, updated_at |-> ValidDate, primary_language |-> "C",
            languages |-> <<[lang |-> "C", bytes |-> 0]>>]
RepoPool == {RepoA, RepoB, RepoC, RepoBad}

DatasetX == [ref |-> "x", title |-> wData, description |-> wCode \o Space \o wData,
             tags |-> <<wDeep>>, download_count |-> 10, view_count |-> 0,
             vote_count |-> 0, last_updated |-> ValidDate]
DatasetY == [ref |-> "y", title |-> <<"D","e","e","p">>, description |-> NoneVal,
             tags |-> <<>>, download_count |-> 4, view_count |-> 10,
             vote_count |-> 0, last_updated |-> ValidDate]
\* a dataset whose last_updated cannot be parsed
DatasetBad == [ref |-> "z", title |-> wCode, description |-> wData,
               tags |-> <<wCode, wData>>, download_count |-> 2, view_count |-> 0,
               vote_count |-> 0, last_updated |-> MalformedDate]
DatasetPool == {DatasetX, DatasetY, DatasetBad}

\* the sequences over S of length at most n
SeqsUpTo(S, n) == UNION { [1..k -> S] : k \in 0..n }

---------------------------------------------------------------------------
(* The collectors.                                                         *)

Limit == 25             \* GitHubScraper(limit=25), KaggleScraper(limit=25)
SearchTagCount == 5     \* len(self.search_tags)

\* a faulty variant: no check that the ref is already in the list
RECURSIVE AddDatasetsNoCheck(_, _, _)
AddDatasetsNoCheck(all, listing, count) ==
    IF listing = <<>> \/ count >= Limit THEN all
    ELSE AddDatasetsNoCheck(Append(all, listing[1]), Tail(listing), count + 1)

\* scrape_datasets, the loop over one tag's listing: a dataset is appended, and
\* counted, unless a record with its ref is in the list already
RECURSIVE AddDatasets(_, _, _)
AddDatasets(all, listing, count) ==
    IF listing = <<>> \/ count >= Limit THEN all
    ELSE IF \E i \in DOMAIN all : all[i].ref = listing[1].ref
         THEN AddDatasets(all, Tail(listing), count)
         ELSE AddDatasets(Append(all, listing[1]), Tail(listing), count + 1)

\* scrape_datasets, the same loop: whether the test of line 68 is false for a
\* dataset whose ref is in `earlier`, the list as it was when the tag began
RECURSIVE SeenAgain(_, _, _, _)
SeenAgain(earlier, all, listing, count) ==
    IF listing = <<>> \/ count >= Limit THEN FALSE
    ELSE IF \E i \in DOMAIN all : all[i].ref = listing[1].ref
         THEN \/ \E i \in DOMAIN earlier : earlier[i].ref = listing[1].ref
              \/ SeenAgain(earlier, all, Tail(listing), count)
         ELSE SeenAgain(earlier, Append(all, listing[1]), Tail(listing), count + 1)

\* asset github_raw_data: scrape_repositories appends every repository the
\* search returns, topic after topic, writes the list and returns it; repos is
\* that list
GithubRawData ==
    /\ pc = "github_raw_data"
    /\ \E repos \in SeqsUpTo(RepoPool, MaxRepos) :
          /\ github_file' = repos
          /\ github_count' = Len(repos)
    /\ pc' = "kaggle_tag"
    /\ UNCHANGED <<kaggle_file, all_datasets, tag_idx, seen_again, kaggle_count, loadVars,
                   tableVars, matchVars, reportVars, artifacts, error, steps, kwVars, runVars, quality_results>>

\* scrape_datasets, one search tag: the API call raises (the tag is skipped) or
\* returns a listing
KaggleScrapeTag ==
    /\ pc = "kaggle_tag"
    /\ tag_idx < SearchTagCount
    /\ \/ UNCHANGED <<all_datasets, seen_again>>
       \/ \E listing \in SeqsUpTo(DatasetPool, MaxPerTag) :
             /\ all_datasets' = AddDatasets(all_datasets, listing, 0)
             /\ seen_again' = (seen_again
                                \/ SeenAgain(all_datasets, all_datasets, listing, 0))
    /\ tag_idx' = tag_idx + 1
    /\ UNCHANGED <<pc, github_file, kaggle_file, github_count, kaggle_count, loadVars,
                   tableVars, matchVars, reportVars, artifacts, error, steps, kwVars, runVars, quality_results>>

\* scrape_datasets after the last tag: the list is written and returned; asset
\* kaggle_raw_data returns its length
KaggleRawData ==
    /\ pc = "kaggle_tag"
    /\ tag_idx = SearchTagCount
    /\ kaggle_file' = all_datasets
    /\ kaggle_count' = Len(all_datasets)
    /\ pc' = "processed_data"
    /\ UNCHANGED <<github_file, all_datasets, tag_idx, seen_again, github_count, loadVars,
                   tableVars, matchVars, reportVars, artifacts, error, steps, kwVars, runVars, quality_results>>

---------------------------------------------------------------------------
(* Asset processed_data and DataProcessor.load_data                        *)

MissingDataMessage == "Missing data from one or both sources"

\* a faulty variant: the run is refused only when both sources are empty
MissingSourceBoth(g, k) == g = 0 /\ k = 0

\* processed_data: github_data == 0 or kaggle_data == 0
MissingSource(g, k) == g = 0 \/ k = 0

\* processed_data up to the call of process_data
ProcessedDataCheck ==
    /\ pc = "processed_data"
    /\ IF MissingSource(github_count, kaggle_count)
       THEN pc' = "failed" /\ error' = MissingDataMessage
       ELSE pc' = "load_data" /\ UNCHANGED error
    /\ seen_again' = FALSE      \* the scraper is gone
    /\ UNCHANGED <<github_file, kaggle_file, all_datasets, tag_idx, github_count,
                   kaggle_count, loadVars, tableVars, matchVars, reportVars,
                   artifacts, steps, kwVars, runVars, quality_results>>

\* a faulty variant: the records loaded before the failure are returned
LoadResultPartial(failure, gfile, kfile) ==
    IF failure = "none" THEN <<gfile, kfile>>
    ELSE IF failure = "kaggle" THEN <<gfile, (<<>>)>>
    ELSE <<(<<>>), (<<>>)>>

\* load_data: what it returns when `failure` names the file whose open or
\* json.load raised ("none": neither)
LoadResult(failure, gfile, kfile) ==
    IF failure = "none" THEN <<gfile, kfile>> ELSE <<(<<>>), (<<>>)>>

\* The first step of process_data; the salt of the interpreter that runs it is
\* drawn here.
LoadData ==
    /\ pc = "load_data"
    /\ \E failure \in {"none", "github", "kaggle"} :
          /\ load_failure' = failure
          /\ github_data' = LoadResult(failure, github_file, kaggle_file)[1]
          /\ kaggle_data' = LoadResult(failure, github_file, kaggle_file)[2]
    /\ hash_seed' \in Seeds
    /\ steps' = steps \cup {"load_data"}
    /\ pc' = "process_github_data"
    /\ UNCHANGED <<scrapeVars, tableVars, matchVars, reportVars, artifacts, error, kwVars,
                   tie_order, first_artifacts, quality_results>>

---------------------------------------------------------------------------
(* DataProcessor.process_github_data and process_kaggle_data.  The         *)
(* derivations are column-wise over the whole table: one record that       *)
(* raises makes the call raise.                                            *)

TopicLimit == 5     \* x[:5]

RECURSIVE SumBytes(_)
SumBytes(languages) ==
    IF languages = <<>> THEN 0 ELSE languages[1].bytes + SumBytes(Tail(languages))

\* the language_percentages lambda divides by sum(x.values()) when x is not empty
LanguagesRaise(languages) == languages # <<>> /\ SumBytes(languages) = 0

\* pd.to_datetime on one value
DateRaises(d) == d # ValidDate

NormalizeRepo(r) ==
    [repo_name |-> r.name,
     description |-> r.description,
     repo_stars |-> r.stars,
     primary_language |-> r.primary_language,
     main_topics |-> IF r.topics = <<>> THEN EmptyText
                     ELSE Join(Prefix(r.topics, TopicLimit), CommaSpace),
     readme_keywords |-> ExtractKeywordsOf(r.readme_content, DefaultMaxKeywords)]

\* a faulty variant: a record that raises is dropped and the others are normalised
ProcessGithubDataDropInvalid(data) ==
    LET valid(r) == ~LanguagesRaise(r.languages) /\ ~DateRaises(r.updated_at)
        kept == SelectSeq(data, valid)
    IN [raised |-> "", df |-> [i \in DOMAIN kept |-> NormalizeRepo(kept[i])]]

\* process_github_data: [raised, df]
ProcessGithubData(data) ==
    IF data = <<>> THEN [raised |-> "", df |-> <<>>]
    ELSE IF \E i \in DOMAIN data : LanguagesRaise(data[i].languages)
         THEN [raised |-> "ZeroDivisionError", df |-> <<>>]
    ELSE IF \E i \in DOMAIN data : DateRaises(data[i].updated_at)
         THEN [raised |-> "ValueError", df |-> <<>>]
    ELSE [raised |-> "", df |-> [i \in DOMAIN data |-> NormalizeRepo(data[i])]]

\* popularity_score in tenths: download*0.5 + view*0.3 + vote*0.2
PopularityTenths(d) == 5 * d.download_count + 3 * d.view_count + 2 * d.vote_count

NormalizeDataset(d) ==
    [dataset_ref |-> d.ref,
     dataset_title |-> d.title,
     dataset_description |-> d.description,
     download_count |-> d.download_count,
     popularity_score |-> PopularityTenths(d),
     dataset_tags |-> IF d.tags = <<>> THEN EmptyText ELSE Join(d.tags, CommaSpace)]

\* process_kaggle_data: [raised, df]
ProcessKaggleData(data) ==
    IF data = <<>> THEN [raised |-> "", df |-> <<>>]
    ELSE IF \E i \in DOMAIN data : DateRaises(data[i].last_updated)
         THEN [raised |-> "ValueError", df |-> <<>>]
    ELSE [raised |-> "", df |-> [i \in DOMAIN data |-> NormalizeDataset(data[i])]]

ProcessGithub ==
    /\ pc = "process_github_data"
    /\ steps' = steps \cup {"process_github_data"}
    /\ LET r == ProcessGithubData(github_data)
       IN IF r.raised # ""
          THEN pc' = "failed" /\ error' = r.raised /\ UNCHANGED github_df
          ELSE pc' = "process_kaggle_data" /\ github_df' = r.df /\ UNCHANGED error
    /\ UNCHANGED <<scrapeVars, loadVars, kaggle_df, matchVars, reportVars, artifacts, kwVars, runVars, quality_results>>

ProcessKaggle ==
    /\ pc = "process_kaggle_data"
    /\ steps' = steps \cup {"process_kaggle_data"}
    /\ LET r == ProcessKaggleData(kaggle_data)
       IN IF r.raised # ""
          THEN pc' = "failed" /\ error' = r.raised /\ UNCHANGED kaggle_df
          ELSE pc' = "find_relationships" /\ kaggle_df' = r.df /\ UNCHANGED error
    /\ UNCHANGED <<scrapeVars, loadVars, github_df, matchVars, reportVars, artifacts, kwVars, runVars, quality_results>>

---------------------------------------------------------------------------
(* DataProcessor.find_relationships                                        *)

RepoKeywords(repo) ==
    Range(ExtractTextKeywords(
        Format(repo.repo_name) \o Space \o Format(repo.description) \o Space
        \o Format(repo.main_topics) \o Space \o Format(repo.readme_keywords)))

DatasetKeywords(dataset) ==
    Range(ExtractTextKeywords(
        Format(dataset.dataset_title) \o Space \o Format(dataset.dataset_description)
        \o Space \o Format(dataset.dataset_tags)))

\* The iteration order of a set of str follows the str hashes, which the
\* interpreter salts per process: the order is a function of the set and of the
\* salt.  The model gives one order per salt: the alphabetical order of the
\* keywords, rotated by the salt.
CharCode(c) == CHOOSE i \in 1..36 : (DigitChars \o LowerChars)[i] = c

RECURSIVE TextLess(_, _)
TextLess(a, b) ==
    IF b = <<>> THEN FALSE
    ELSE IF a = <<>> THEN TRUE
    ELSE IF a[1] # b[1] THEN CharCode(a[1]) < CharCode(b[1])
    ELSE TextLess(Tail(a), Tail(b))

RECURSIVE SortedTexts(_)
SortedTexts(S) ==
    IF S = {} THEN <<>>
    ELSE LET first == CHOOSE x \in S : \A y \in S \ {x} : TextLess(x, y)
         IN <<first>> \o SortedTexts(S \ {first})

SetIteration(S, seed) ==
    LET sorted == SortedTexts(S)
        n == Len(sorted)
    IN [i \in 1..n |-> sorted[((i - 1 + seed) % n) + 1]]

\* ', '.join(common_keywords), common_keywords a set
JoinCommon(common) == Join(SetIteration(common, hash_seed), CommaSpace)

\* a faulty variant: the denominator without its floor of 1
SimilarityDenNoFloor(a, b) == Max2(a, b)

\* max(len(repo_keywords), len(dataset_keywords), 1)
SimilarityDen(a, b) == Max2(Max2(a, b), 1)

\* a faulty variant: the threshold test admits a score equal to 0.1
KeepAtThreshold(f) == 10 * f.num >= MinSimilarityTenths * f.den

\* if similarity_score > 0.1.  The double 0.1 is the correctly rounded 1/10, so a
\* quotient k/d with 10k = d is that same double and the comparison is false.
Keep(f) == 10 * f.num > MinSimilarityTenths * f.den

\* one pass of the inner loop body
VisitPair(repo, dataset) ==
    LET repo_keywords == RepoKeywords(repo)
        dataset_keywords == DatasetKeywords(dataset)
        common_keywords == repo_keywords \cap dataset_keywords
        den == SimilarityDen(Cardinality(repo_keywords), Cardinality(dataset_keywords))
        score == Frac(Cardinality(common_keywords), den)
    IN [repo_name |-> repo.repo_name,
        dataset_title |-> dataset.dataset_title,
        similarity_score |-> score,
        common_keywords |-> common_keywords,
        kept |-> IF den = 0 THEN FALSE ELSE Keep(score)]

\* the pairs in the order the loops visit them: repositories outside, datasets inside
VisitAll(gdf, kdf) ==
    LET D == Len(kdf)
    IN [k \in 1..(Len(gdf) * D) |->
            VisitPair(gdf[((k - 1) \div D) + 1], kdf[((k - 1) % D) + 1])]

RelationshipRow(v) ==
    [repo_name |-> v.repo_name, dataset_title |-> v.dataset_title,
     similarity_score |-> v.similarity_score,
     common_keywords |-> JoinCommon(v.common_keywords)]

\* the list `relationships` before the sort
KeptRows(visited) ==
    LET isKept(v) == v.kept
        kept == SelectSeq(visited, isKept)
    IN [i \in DOMAIN kept |-> RelationshipRow(kept[i])]

ScoreKeys(rows) == [i \in DOMAIN rows |-> rows[i].similarity_score]

FindRelationships ==
    /\ pc = "find_relationships"
    /\ steps' = steps \cup {"find_relationships"}
    /\ IF github_df = <<>> \/ kaggle_df = <<>>
       THEN /\ relationships_df' = <<>>
            /\ UNCHANGED <<scores, error, tie_order>>
            /\ pc' = "build_reports"
       ELSE LET visited == VisitAll(github_df, kaggle_df)
                rows == KeptRows(visited)
            IN IF \E k \in DOMAIN visited : visited[k].similarity_score.den = 0
               THEN /\ pc' = "failed"
                    /\ error' = "ZeroDivisionError"
                    /\ UNCHANGED <<scores, relationships_df, tie_order>>
               ELSE /\ scores' = visited
                    /\ \E perm \in Memoized("similarity_score", ScoreKeys(rows),
                                             ArrangementsDesc(ScoreKeys(rows), DOMAIN rows)) :
                          /\ relationships_df' = SortValuesDesc(rows, perm)
                          /\ tie_order' = tie_order
                                \cup {Memo("similarity_score", ScoreKeys(rows), perm)}
                    /\ pc' = "build_reports"
                    /\ UNCHANGED error
    /\ UNCHANGED <<scrapeVars, loadVars, tableVars, reportVars, artifacts, kwVars,
                   hash_seed, first_artifacts, quality_results>>

---------------------------------------------------------------------------
(* DataProcessor.process_data, lines 176-200: the report tables            *)

TopN == 50      \* head(50)

\* df['data_source'] = label
Tagged(df, label) == [i \in DOMAIN df |-> df[i] @@ [data_source |-> label]]

\* an integer column as sort keys
IntKeys(ns) == [i \in DOMAIN ns |-> Frac(ns[i], 1)]

RECURSIVE SumOf(_)
SumOf(ns) == IF ns = <<>> THEN 0 ELSE ns[1] + SumOf(Tail(ns))

\* Series.mean()
Mean(ns) == Frac(SumOf(ns), Len(ns))

\* primary_language.value_counts(): None is not counted; the values that may
\* stand first are the most frequent ones
TopLanguages(df) ==
    LET langs == [i \in DOMAIN df |-> df[i].primary_language]
        present == Range(langs) \ {NoLanguage}
    IN {l \in present : \A m \in present : Count(langs, l) >= Count(langs, m)}

\* str.split(',')
SplitComma(s) ==
    LET RECURSIVE go(_, _, _)
        go(i, cur, acc) ==
            IF i > Len(s) THEN Append(acc, cur)
            ELSE IF s[i] = "," THEN go(i + 1, <<>>, Append(acc, cur))
                 ELSE go(i + 1, Append(cur, s[i]), acc)
    IN go(1, <<>>, <<>>)

\* str.strip() of spaces
RECURSIVE Strip(_)
Strip(s) ==
    IF s = <<>> THEN s
    ELSE IF s[1] = " " THEN Strip(Tail(s))
    ELSE IF s[Len(s)] = " " THEN Strip(SubSeq(s, 1, Len(s) - 1))
    ELSE s

\* _most_common_tag: max() keeps the first of the most frequent tags
MostCommonTag(tag_series) ==
    LET RECURSIVE collect(_)
        collect(i) ==
            IF i > Len(tag_series) THEN <<>>
            ELSE IF tag_series[i] = EmptyText THEN collect(i + 1)
            ELSE LET parts == SplitComma(tag_series[i])
                 IN [j \in DOMAIN parts |-> Strip(parts[j])] \o collect(i + 1)
        all_tags == collect(1)
        keys == DictKeys(all_tags)
    IN IF all_tags = <<>> THEN EmptyText
       ELSE keys[CHOOSE i \in DOMAIN keys :
                    /\ \A j \in DOMAIN keys : Count(all_tags, keys[i]) >= Count(all_tags, keys[j])
                    /\ \A j \in 1..(i-1) : Count(all_tags, keys[j]) < Count(all_tags, keys[i])]

\* df[column]
StarsColumn(df) == [i \in DOMAIN df |-> df[i].repo_stars]
PopularityColumn(df) == [i \in DOMAIN df |-> df[i].popularity_score]
DownloadsColumn(df) == [i \in DOMAIN df |-> df[i].download_count]
TagsColumn(df) == [i \in DOMAIN df |-> df[i].dataset_tags]
LanguageColumn(df) == [i \in DOMAIN df |-> df[i].primary_language]

\* the exception lines 176-200 raise, "" if none: sort_values and the column
\* reads raise KeyError on a DataFrame without columns, index[0] raises
\* IndexError when no repository has a language
ReportsRaise(gdf, kdf) ==
    IF gdf = <<>> THEN "KeyError: 'repo_stars'"
    ELSE IF kdf = <<>> THEN "KeyError: 'popularity_score'"
    ELSE IF TopLanguages(gdf) = {} THEN "IndexError"
    ELSE ""

MetricsRow(gdf, kdf, rel, language) ==
    [total_github_repos |-> Len(gdf),
     total_kaggle_datasets |-> Len(kdf),
     total_relationships_found |-> Len(rel),
     avg_github_stars |-> Mean(StarsColumn(gdf)),
     avg_kaggle_downloads |-> Mean(DownloadsColumn(kdf)),
     top_github_language |-> language,
     top_kaggle_tag |-> MostCommonTag(TagsColumn(kdf)),
     data_source |-> "metrics"]

BuildReports ==
    /\ pc = "build_reports"
    /\ steps' = steps \cup {"build_reports"}
    /\ IF ReportsRaise(github_df, kaggle_df) # ""
       THEN /\ pc' = "failed"
            /\ error' = ReportsRaise(github_df, kaggle_df)
            /\ UNCHANGED <<reportVars, tie_order>>
       ELSE LET stars == IntKeys(StarsColumn(github_df))
                popularity == IntKeys(PopularityColumn(kaggle_df))
                languages == LanguageColumn(github_df)
            IN \E g \in Memoized("repo_stars", stars,
                                  ArrangementsDesc(stars, DOMAIN github_df)),
                  k \in Memoized("popularity_score", popularity,
                                  ArrangementsDesc(popularity, DOMAIN kaggle_df)),
                  language \in Memoized("primary_language", languages,
                                         TopLanguages(github_df)) :
                  /\ top_github' = Tagged(Prefix(SortValuesDesc(github_df, g), TopN),
                                           "github")
                  /\ top_kaggle' = Tagged(Prefix(SortValuesDesc(kaggle_df, k), TopN),
                                           "kaggle")
                  /\ top_relationships' = Tagged(Prefix(relationships_df, TopN),
                                                  "relationship")
                  /\ metrics' = <<MetricsRow(github_df, kaggle_df, relationships_df,
                                              language)>>
                  /\ tie_order' = tie_order
                        \cup {Memo("repo_stars", stars, g),
                              Memo("popularity_score", popularity, k),
                              Memo("primary_language", languages, language)}
                  /\ pc' = "to_csv_top_github"
                  /\ UNCHANGED error
    /\ UNCHANGED <<scrapeVars, loadVars, tableVars, matchVars, artifacts, kwVars,
                   hash_seed, first_artifacts, quality_results>>

---------------------------------------------------------------------------
(* DataProcessor.process_data, lines 202-211: the four writes.  to_csv     *)
(* raises or writes the file; an exception leaves process_data.            *)

ArtifactNames == {"top_github_repos", "top_kaggle_datasets",
                  "dataset_repo_relationships", "metrics"}

NotWritten == [written |-> FALSE, rows |-> <<>>]

\* a faulty variant: a failed write is noted and the next write is attempted
ToCsvTolerant(name, df, stepName, next) ==
    /\ steps' = steps \cup {stepName}
    /\ \E written \in BOOLEAN :
          IF written
          THEN /\ artifacts' = [artifacts EXCEPT ![name] = [written |-> TRUE, rows |-> df]]
               /\ pc' = next
               /\ UNCHANGED error
          ELSE /\ pc' = next
               /\ error' = "OSError"
               /\ UNCHANGED artifacts
    /\ UNCHANGED <<scrapeVars, loadVars, tableVars, matchVars, reportVars, kwVars, runVars, quality_results>>

\* df.to_csv(name): written says whether the call succeeded
ToCsv(name, df, stepName, next) ==
    /\ steps' = steps \cup {stepName}
    /\ \E written \in BOOLEAN :
          IF written
          THEN /\ artifacts' = [artifacts EXCEPT ![name] = [written |-> TRUE, rows |-> df]]
               /\ pc' = next
               /\ UNCHANGED error
          ELSE /\ pc' = "failed"
               /\ error' = "OSError"
               /\ UNCHANGED artifacts
    /\ UNCHANGED <<scrapeVars, loadVars, tableVars, matchVars, reportVars, kwVars, runVars, quality_results>>

WriteTopGithub ==
    /\ pc = "to_csv_top_github"
    /\ ToCsv("top_github_repos", top_github, "to_csv_top_github", "to_csv_top_kaggle")

WriteTopKaggle ==
    /\ pc = "to_csv_top_kaggle"
    /\ ToCsv("top_kaggle_datasets", top_kaggle, "to_csv_top_kaggle", "to_csv_relationships")

\* line 205 writes relationships_df
WriteRelationships ==
    /\ pc = "to_csv_relationships"
    /\ ToCsv("dataset_repo_relationships", relationships_df, "to_csv_relationships",
             "to_csv_metrics")

\* the last write; process_data returns and processed_data returns its Output
WriteMetrics ==
    /\ pc = "to_csv_metrics"
    /\ ToCsv("metrics", metrics, "to_csv_metrics", "done")

---------------------------------------------------------------------------
(* The run of the job: the collectors, then processed_data.                *)

NoMetrics == <<>>

\* no earlier run of process_data
NoRun == <<>>

\* data_quality_check has not returned
NotChecked == <<>>

---------------------------------------------------------------------------
(* Asset data_quality_check.  A CSV file is its header and, for every row  *)
(* and column, whether the field is empty: to_csv writes None and NaN as   *)
(* the empty field, an empty string is written as the empty field too, and *)
(* read_csv reads the empty field as NaN.                                  *)

TextColumns == {"repo_name", "description", "main_topics", "readme_keywords",
                "dataset_title", "dataset_description", "dataset_tags",
                "common_keywords", "top_kaggle_tag"}

\* whether to_csv writes the value v of the column as the empty field
EmptyField(column, v) ==
    IF column \in TextColumns THEN v = NoneVal \/ v = EmptyText
    ELSE IF column = "primary_language" THEN v = NoLanguage
    ELSE FALSE

\* df.to_csv(path, index=False): a DataFrame without columns gives a file
\* without header
CsvFile(df) ==
    LET columns == IF df = <<>> THEN {} ELSE DOMAIN df[1]
    IN [columns |-> columns,
        empty |-> [i \in DOMAIN df |-> [c \in columns |-> EmptyField(c, df[i][c])]]]

\* pd.read_csv: [raised, rows, cols, isna]; a file without header raises
\* EmptyDataError, `fails` says that the read raises for another reason
ReadCsv(file, fails) ==
    IF fails THEN [raised |-> "OSError", rows |-> 0, cols |-> 0, isna |-> 0]
    ELSE IF file.columns = {}
    THEN [raised |-> "EmptyDataError", rows |-> 0, cols |-> 0, isna |-> 0]
    ELSE [raised |-> "",
          rows |-> Len(file.empty),
          cols |-> Cardinality(file.columns),
          isna |-> Cardinality({<<i, c>> \in (DOMAIN file.empty) \X file.columns :
                                  file.empty[i][c]})]

WarnPct == 20

\* a faulty variant: a table with exactly 20% of missing cells is high as well
HighMissingFrom(df) == FracGe(Frac(df.isna * 100, df.rows * df.cols), Frac(WarnPct, 1))

\* missing_pct > 20, missing_pct = isna / (rows * cols) * 100.  isna / cells is
\* the double nearest to the quotient and the double nearest to 1/5 times 100
\* is 20.0, so the comparison is the one of the exact quotient.
HighMissing(df) == FracGt(Frac(df.isna * 100, df.rows * df.cols), Frac(WarnPct, 1))

\* the body of the loop for one file: the entry of quality_results, with the
\* outcome of the read it was made from
QualityOf(file, fails) ==
    LET df == ReadCsv(file, fails)
    IN [read |-> df,
        result |-> IF df.raised # "" THEN "ERROR"
                   ELSE IF df.rows = 0 \/ df.cols = 0 THEN "FAIL"
                   ELSE IF HighMissing(df) THEN "WARNING"
                   ELSE "PASS"]

\* Another CSV file that glob finds in the directory: a header of MaxColumns
\* columns and no row, or one row whose first m fields are empty.
OtherFile(rows, m) ==
    [columns |-> 1..MaxColumns,
     empty |-> [i \in 1..rows |-> [c \in 1..MaxColumns |-> c <= m]]]

OtherFiles == {OtherFile(0, 0)} \cup {OtherFile(1, m) : m \in 0..MaxEmptyFields}

\* data_quality_check after processed_data returned: the directory holds the
\* four artifacts and possibly another CSV file
DataQualityCheck ==
    /\ pc = "done"
    /\ \E others \in {{}} \cup {{"other"}} :
       \E other \in OtherFiles :
       \E unreadable \in SUBSET (ArtifactNames \cup others) :
          /\ Cardinality(unreadable) <= MaxUnreadable
          /\ others = {} => other = OtherFile(0, 0)
          /\ LET csv_files == ArtifactNames \cup others
                 content(f) == IF f \in ArtifactNames THEN CsvFile(artifacts[f].rows)
                               ELSE other
             IN quality_results' =
                    [f \in csv_files |-> QualityOf(content(f), f \in unreadable)]
    /\ pc' = "quality_checked"
    /\ UNCHANGED <<scrapeVars, loadVars, tableVars, matchVars, reportVars, artifacts,
                   error, steps, kwVars, runVars>>

\* process_data is run a second time, in a new interpreter, on the raw files
\* of the first run
ProcessDataAgain ==
    /\ pc = "done"
    /\ first_artifacts = NoRun
    /\ first_artifacts' = artifacts
    /\ github_data' = <<>>
    /\ kaggle_data' = <<>>
    /\ load_failure' = "none"
    /\ github_df' = <<>>
    /\ kaggle_df' = <<>>
    /\ scores' = <<>>
    /\ relationships_df' = <<>>
    /\ top_github' = <<>>
    /\ top_kaggle' = <<>>
    /\ top_relationships' = <<>>
    /\ metrics' = NoMetrics
    /\ artifacts' = [n \in ArtifactNames |-> NotWritten]
    /\ error' = ""
    /\ steps' = {}
    /\ pc' = "load_data"
    /\ UNCHANGED <<scrapeVars, kwVars, hash_seed, tie_order, quality_results>>

Init ==
    /\ pc = "github_raw_data"
    /\ github_file = <<>>
    /\ kaggle_file = <<>>
    /\ all_datasets = <<>>
    /\ tag_idx = 0
    /\ seen_again = FALSE
    /\ github_count = 0
    /\ kaggle_count = 0
    /\ github_data = <<>>
    /\ kaggle_data = <<>>
    /\ load_failure = "none"
    /\ github_df = <<>>
    /\ kaggle_df = <<>>
    /\ scores = <<>>
    /\ relationships_df = <<>>
    /\ top_github = <<>>
    /\ top_kaggle = <<>>
    /\ top_relationships = <<>>
    /\ metrics = NoMetrics
    /\ artifacts = [n \in ArtifactNames |-> NotWritten]
    /\ error = ""
    /\ steps = {}
    /\ kw_text = EmptyText
    /\ kw_max = 0
    /\ kw_result = EmptyText
    /\ hash_seed = 0
    /\ tie_order = {}
    /\ first_artifacts = NoRun
    /\ quality_results = NotChecked

Next ==
    \/ GithubRawData
    \/ KaggleScrapeTag
    \/ KaggleRawData
    \/ ProcessedDataCheck
    \/ LoadData
    \/ ProcessGithub
    \/ ProcessKaggle
    \/ FindRelationships
    \/ BuildReports
    \/ WriteTopGithub
    \/ WriteTopKaggle
    \/ WriteRelationships
    \/ WriteMetrics

Spec == Init /\ [][Next]_vars

---------------------------------------------------------------------------
(* process_data from the raw files of a job whose collectors returned      *)
(* records that normalise.  It is followed by a second run of process_data *)
(* on the same files, or by data_quality_check.                            *)

RawRepos == SeqsUpTo(RepoPool \ {RepoBad}, MaxRunRepos) \ {<<>>}

RawDatasets ==
    {ds \in SeqsUpTo(DatasetPool \ {DatasetBad}, MaxPerTag) \ {<<>>} :
        \A i, j \in DOMAIN ds : ds[i].ref = ds[j].ref => i = j}

InitProcess ==
    /\ pc = "load_data"
    /\ github_file \in RawRepos
    /\ kaggle_file \in RawDatasets
    /\ all_datasets = kaggle_file
    /\ tag_idx = SearchTagCount
    /\ seen_again = FALSE
    /\ github_count = Len(github_file)
    /\ kaggle_count = Len(kaggle_file)
    /\ github_data = <<>>
    /\ kaggle_data = <<>>
    /\ load_failure = "none"
    /\ github_df = <<>>
    /\ kaggle_df = <<>>
    /\ scores = <<>>
    /\ relationships_df = <<>>
    /\ top_github = <<>>
    /\ top_kaggle = <<>>
    /\ top_relationships = <<>>
    /\ metrics = NoMetrics
    /\ artifacts = [n \in ArtifactNames |-> NotWritten]
    /\ error = ""
    /\ steps = {}
    /\ kw_text = EmptyText
    /\ kw_max = 0
    /\ kw_result = EmptyText
    /\ hash_seed = 0
    /\ tie_order = {}
    /\ first_artifacts = NoRun
    /\ quality_results = NotChecked

ProcessData ==
    \/ LoadData
    \/ ProcessGithub
    \/ ProcessKaggle
    \/ FindRelationships
    \/ BuildReports
    \/ WriteTopGithub
    \/ WriteTopKaggle
    \/ WriteRelationships
    \/ WriteMetrics

NextTwice ==
    \/ ProcessData
    \/ ProcessDataAgain

SpecTwice == InitProcess /\ [][NextTwice]_vars

NextQuality ==
    \/ ProcessData
    \/ DataQualityCheck

SpecQuality == InitProcess /\ [][NextQuality]_vars

---------------------------------------------------------------------------
(* The matching specification: process_data from the loaded collections to *)
(* the end of find_relationships, on one repository and one dataset whose  *)
(* descriptions are runs of the words key1, key2, ...                      *)

RECURSIVE Digits(_)
Digits(n) == IF n < 10 THEN <<DigitChars[n + 1]>>
             ELSE Digits(n \div 10) \o <<DigitChars[(n % 10) + 1]>>

Word(i) == <<"k","e","y">> \o Digits(i)

\* the words Word(i) .. Word(j) separated by spaces; empty if i > j
WordRun(i, j) == Join([k \in 1..(j - i + 1) |-> Word(i + k - 1)], Space)

MatchRepo(n) ==
    [name |-> <<"r">>, description |-> WordRun(1, n), topics |-> <<>>,
     readme_content |-> EmptyText, stars |-> 1, updated_at |-> ValidDate,
     primary_language |-> "Python", languages |-> <<>>]

MatchDataset(i, j) ==
    [ref |-> "d", title |-> <<"d">>, description |-> WordRun(i, j), tags |-> <<>>,
     download_count |-> 1, view_count |-> 0, vote_count |-> 0,
     last_updated |-> ValidDate]

InitMatch ==
    /\ pc = "process_github_data"
    /\ \E n \in 0..MaxWords : github_file = <<MatchRepo(n)>>
    /\ \E i \in 1..(MaxWords + 1) : \E j \in (i - 1)..(MaxWords + 1) :
          (j >= i \/ i = 1) /\ kaggle_file = <<MatchDataset(i, j)>>
    /\ all_datasets = kaggle_file
    /\ tag_idx = SearchTagCount
    /\ seen_again = FALSE
    /\ github_count = Len(github_file)
    /\ kaggle_count = Len(kaggle_file)
    /\ github_data = github_file
    /\ kaggle_data = kaggle_file
    /\ load_failure = "none"
    /\ github_df = <<>>
    /\ kaggle_df = <<>>
    /\ scores = <<>>
    /\ relationships_df = <<>>
    /\ top_github = <<>>
    /\ top_kaggle = <<>>
    /\ top_relationships = <<>>
    /\ metrics = NoMetrics
    /\ artifacts = [n \in ArtifactNames |-> NotWritten]
    /\ error = ""
    /\ steps = {"load_data"}
    /\ kw_text = EmptyText
    /\ kw_max = 0
    /\ kw_result = EmptyText
    /\ hash_seed \in Seeds
    /\ tie_order = {}
    /\ first_artifacts = NoRun
    /\ quality_results = NotChecked

NextMatch ==
    \/ ProcessGithub
    \/ ProcessKaggle
    \/ FindRelationships

SpecMatch == InitMatch /\ [][NextMatch]_vars

---------------------------------------------------------------------------
(* The keyword specification: _extract_keywords applied to a text made of  *)
(* chunks separated by single spaces.                                      *)

ChunkPool == { <<"D","a","t","a">>,        \* upper case
               <<"d","a","t","a",",">>,    \* punctuation attached
               <<"w","i","t","h">>,        \* a common word of length 4
               <<"m","l">>,                \* a short word that is not common
               <<"c","o","d","e">>,
               <<"d","e","e","p">> }

KwTexts == { Join(chunks, Space) : chunks \in SeqsUpTo(ChunkPool, MaxChunks) }

InitKw ==
    /\ pc = "extract_keywords"
    /\ kw_text \in KwTexts
    /\ kw_max \in 0..MaxKeywords
    /\ kw_result = EmptyText
    /\ github_file = <<>>
    /\ kaggle_file = <<>>
    /\ all_datasets = <<>>
    /\ tag_idx = 0
    /\ seen_again = FALSE
    /\ github_count = 0
    /\ kaggle_count = 0
    /\ github_data = <<>>
    /\ kaggle_data = <<>>
    /\ load_failure = "none"
    /\ github_df = <<>>
    /\ kaggle_df = <<>>
    /\ scores = <<>>
    /\ relationships_df = <<>>
    /\ top_github = <<>>
    /\ top_kaggle = <<>>
    /\ top_relationships = <<>>
    /\ metrics = NoMetrics
    /\ artifacts = [n \in ArtifactNames |-> NotWritten]
    /\ error = ""
    /\ steps = {}
    /\ hash_seed = 0
    /\ tie_order = {}
    /\ first_artifacts = NoRun
    /\ quality_results = NotChecked

ExtractKeywords ==
    /\ pc = "extract_keywords"
    /\ kw_result' = ExtractKeywordsOf(kw_text, kw_max)
    /\ pc' = "extracted"
    /\ UNCHANGED <<scrapeVars, loadVars, tableVars, matchVars, reportVars,
                   artifacts, error, steps, kw_text, kw_max, runVars,
                   quality_results>>

NextKw == ExtractKeywords

SpecKw == InitKw /\ [][NextKw]_vars

---------------------------------------------------------------------------
(* Claims                                                                  *)

Matched == "find_relationships" \in steps /\ pc # "failed"
           /\ github_df # <<>> /\ kaggle_df # <<>>

\* the repository and the dataset of the k-th pair visited
PairRepo(k) == github_df[((k - 1) \div Len(kaggle_df)) + 1]
PairDataset(k) == kaggle_df[((k - 1) % Len(kaggle_df)) + 1]

\* C1: once find_relationships has run, it has not faulted, it has scored every
\* (repository, dataset) pair, and each score is |A \cap B| over the largest of
\* |A|, |B| and 1; with both keyword sets empty the score is 0/1.
C1_SimilarityFormula ==
    "find_relationships" \in steps =>
        /\ error # "ZeroDivisionError"
        /\ github_df # <<>> /\ kaggle_df # <<>> =>
              /\ pc # "failed"
              /\ Len(scores) = Len(github_df) * Len(kaggle_df)
              /\ \A k \in DOMAIN scores :
                    LET A == RepoKeywords(PairRepo(k))
                        B == DatasetKeywords(PairDataset(k))
                        f == scores[k].similarity_score
                    IN /\ f.num = Cardinality(A \cap B)
                       /\ f.den >= Cardinality(A) /\ f.den >= Cardinality(B) /\ f.den >= 1
                       /\ f.den \in {Cardinality(A), Cardinality(B), 1}
                       /\ (A = {} /\ B = {}) => (f.num = 0 /\ f.den = 1)

\* C1 witness: a pair with both keyword sets empty has been scored 0
C1_Witness ==
    /\ Matched
    /\ \E k \in DOMAIN scores :
          /\ RepoKeywords(PairRepo(k)) = {}
          /\ DatasetKeywords(PairDataset(k)) = {}
          /\ scores[k].similarity_score = Frac(0, 1)

\* the rows of relationships_df that are the pair v
RowsOf(v) == {i \in DOMAIN relationships_df : relationships_df[i] = RelationshipRow(v)}

\* C2: a visited pair is in relationships_df if and only if ten times its common
\* keywords exceed the larger keyword set (score > 0.1), and every row's score is
\* in (0, 1].
C2_StrictThreshold ==
    Matched =>
        /\ \A k \in DOMAIN scores :
              LET f == scores[k].similarity_score
              IN (RowsOf(scores[k]) # {}) <=> (10 * f.num > f.den)
        /\ \A i \in DOMAIN relationships_df :
              LET f == relationships_df[i].similarity_score
              IN f.num > 0 /\ f.num <= f.den

\* C2 witness: a pair scoring exactly 1/10 was visited and is not a relationship
C2_Witness ==
    /\ Matched
    /\ \E k \in DOMAIN scores :
          /\ scores[k].similarity_score = Frac(1, 10)
          /\ RowsOf(scores[k]) = {}

\* a is a rearrangement of b
IsPermutation(a, b) ==
    /\ Len(a) = Len(b)
    /\ \A x \in Range(a) \cup Range(b) : Count(a, x) = Count(b, x)

\* C3 as claimed: relationships_df is the stable descending sort of the kept
\* pairs: descending scores, equal scores in pair-generation order.
C3_StableOrder ==
    Matched =>
        relationships_df = StableSortDesc(KeptRows(scores), ScoreKeys(KeptRows(scores)))

\* C3 as amended: relationships_df holds exactly the kept pairs, by descending
\* score; the order of equal scores is not fixed.
C3_DescendingOrder ==
    Matched =>
        /\ IsPermutation(relationships_df, KeptRows(scores))
        /\ \A i \in DOMAIN relationships_df : \A j \in DOMAIN relationships_df :
              i < j => FracGe(relationships_df[i].similarity_score,
                              relationships_df[j].similarity_score)

\* C3 witness: relationships with two different scores, two of them tied
C3_Witness ==
    /\ Matched
    /\ \E i \in DOMAIN relationships_df : \E j \in DOMAIN relationships_df :
          \E k \in DOMAIN relationships_df :
             /\ i < j /\ j < k
             /\ FracGt(relationships_df[i].similarity_score,
                       relationships_df[j].similarity_score)
             /\ FracEq(relationships_df[j].similarity_score,
                       relationships_df[k].similarity_score)
             /\ relationships_df[j] # relationships_df[k]

NothingWritten == \A n \in ArtifactNames : ~artifacts[n].written

BeforeProcessedData == pc \in {"github_raw_data", "kaggle_tag", "processed_data"}

\* C4: once the processed_data asset has been entered with an empty raw
\* collection, the run has failed with the missing-data condition, and no
\* operation of process_data (load, normalisation, matching, report building,
\* write) has taken place.
C4_MissingSourceFailsFast ==
    (~BeforeProcessedData /\ (github_file = <<>> \/ kaggle_file = <<>>)) =>
        /\ pc = "failed"
        /\ error = MissingDataMessage
        /\ steps = {}
        /\ NothingWritten

\* C4 witness: the run has failed that way with only the dataset collection empty
C4_Witness ==
    /\ pc = "failed"
    /\ error = MissingDataMessage
    /\ github_file # <<>>
    /\ kaggle_file = <<>>

WriteSteps == <<"to_csv_top_github", "to_csv_top_kaggle",
                "to_csv_relationships", "to_csv_metrics">>
WriteNames == <<"top_github_repos", "top_kaggle_datasets",
                "dataset_repo_relationships", "metrics">>

Ended == pc \in {"done", "failed"}
ReachedPersistence == WriteSteps[1] \in steps
WriteFailed(i) == WriteSteps[i] \in steps /\ ~artifacts[WriteNames[i]].written

\* C5 as claimed: a run that reached persistence and has ended has attempted
\* all four writes, and has failed if and only if a write failed.
C5_AllWritesAttempted ==
    (Ended /\ ReachedPersistence) =>
        /\ \A i \in DOMAIN WriteSteps : WriteSteps[i] \in steps
        /\ (pc = "failed") <=> (\E i \in DOMAIN WriteSteps : WriteFailed(i))

\* C5 as amended: the writes are attempted in order and the first failure ends
\* the run: the writes before it succeeded, those after it are never attempted;
\* a run that reached persistence has failed if and only if a write failed.
C5_FirstFailureAborts ==
    /\ \A i \in DOMAIN WriteSteps : \A j \in DOMAIN WriteSteps :
          (i < j /\ WriteSteps[j] \in steps) =>
              (WriteSteps[i] \in steps /\ artifacts[WriteNames[i]].written)
    /\ \A i \in DOMAIN WriteSteps :
          WriteFailed(i) =>
              /\ pc = "failed" /\ error = "OSError"
              /\ \A j \in DOMAIN WriteSteps : j > i => WriteSteps[j] \notin steps
    /\ (Ended /\ ReachedPersistence) =>
          ((pc = "failed") <=> (\E i \in DOMAIN WriteSteps : WriteFailed(i)))
    /\ pc = "done" => \A i \in DOMAIN WriteSteps : artifacts[WriteNames[i]].written

\* C5 witness: the second write failed after the first succeeded, and the run
\* has ended with the last two never attempted
C5_Witness ==
    /\ pc = "failed"
    /\ artifacts["top_github_repos"].written
    /\ WriteFailed(2)
    /\ WriteSteps[3] \notin steps /\ WriteSteps[4] \notin steps

DerivationErrors == {"ZeroDivisionError", "ValueError"}

RepoInvalid(r) == LanguagesRaise(r.languages) \/ DateRaises(r.updated_at)
DatasetInvalid(d) == DateRaises(d.last_updated)

\* C6 as claimed: a record that fails derivation is dropped and the run goes
\* on: no run ends on a derivation error.
C6_RunContinues == ~(pc = "failed" /\ error \in DerivationErrors)

\* C6 as amended: if a record of a loaded collection fails derivation, the
\* normalisation of that collection raises and the run ends there: no table is
\* produced from the collection's valid records, nothing is matched, no report
\* is built and no artifact is written.
C6_InvalidRecordAborts ==
    /\ ("process_github_data" \in steps /\ \E i \in DOMAIN github_data : RepoInvalid(github_data[i])) =>
          /\ pc = "failed" /\ error \in DerivationErrors
          /\ github_df = <<>> /\ kaggle_df = <<>>
          /\ steps = {"load_data", "process_github_data"}
          /\ NothingWritten
    /\ ("process_kaggle_data" \in steps /\ \E i \in DOMAIN kaggle_data : DatasetInvalid(kaggle_data[i])) =>
          /\ pc = "failed" /\ error \in DerivationErrors
          /\ kaggle_df = <<>>
          /\ steps = {"load_data", "process_github_data", "process_kaggle_data"}
          /\ NothingWritten

\* C6 witness: the run has ended on a derivation error with a valid record
\* beside the invalid one
C6_Witness ==
    /\ pc = "failed" /\ error \in DerivationErrors
    /\ \/ /\ \E i \in DOMAIN github_data : RepoInvalid(github_data[i])
          /\ \E i \in DOMAIN github_data : ~RepoInvalid(github_data[i])
       \/ /\ \E i \in DOMAIN kaggle_data : DatasetInvalid(kaggle_data[i])
          /\ \E i \in DOMAIN kaggle_data : ~DatasetInvalid(kaggle_data[i])

\* C7: normalising an empty collection gives an empty table, matching with an
\* empty table gives no relationship, and building the reports over empty
\* tables does not raise and gives zero counts and empty top_github_language
\* and top_kaggle_tag.
C7_EmptyInputLaw ==
    /\ ("process_github_data" \in steps /\ github_data = <<>>) => github_df = <<>>
    /\ ("process_kaggle_data" \in steps /\ kaggle_data = <<>>) => kaggle_df = <<>>
    /\ ("find_relationships" \in steps /\ (github_df = <<>> \/ kaggle_df = <<>>)) =>
          relationships_df = <<>>
    /\ ("build_reports" \in steps /\ github_df = <<>> /\ kaggle_df = <<>>) =>
          /\ pc # "failed"
          /\ Len(metrics) = 1
          /\ metrics[1].total_github_repos = 0
          /\ metrics[1].total_kaggle_datasets = 0
          /\ metrics[1].total_relationships_found = 0
          /\ metrics[1].top_github_language = ""
          /\ metrics[1].top_kaggle_tag = EmptyText

\* C8: a run whose load failed has ended failed with nothing but the load
\* performed: no normalisation, no matching, no report, no write.
C8_LoadFailureAborts ==
    (load_failure # "none" /\ Ended) =>
        /\ pc = "failed"
        /\ steps = {"load_data"}
        /\ NothingWritten

\* C9: the written dataset_repo_relationships artifact is top_relationships: at
\* most 50 rows, each with data_source = "relationship".
C9_TopSlicePersisted ==
    artifacts["dataset_repo_relationships"].written =>
        LET rows == artifacts["dataset_repo_relationships"].rows
        IN /\ Len(rows) <= TopN
           /\ \A i \in DOMAIN rows :
                 /\ "data_source" \in DOMAIN rows[i]
                 /\ rows[i].data_source = "relationship"
           /\ rows = top_relationships

\* the keywords of the returned string
ReturnedKeywords ==
    IF kw_result = EmptyText THEN <<>>
    ELSE LET parts == SplitComma(kw_result) IN [i \in DOMAIN parts |-> Strip(parts[i])]

\* C10: for a non-empty text, the returned keywords are at most max_keywords,
\* distinct, longer than 3, not common words, words of the text, the most
\* frequent ones, by descending frequency and, at equal frequency, in order of
\* first occurrence.
C10_ExtractKeywords ==
    (pc = "extracted" /\ kw_text # EmptyText) =>
        LET L == ReturnedKeywords
            ws == SplitWords(CleanText(kw_text))
            before(a, b) ==
                \/ Count(ws, a) > Count(ws, b)
                \/ Count(ws, a) = Count(ws, b) /\ FirstIndex(ws, a) < FirstIndex(ws, b)
        IN /\ Len(L) <= kw_max
           /\ \A i \in DOMAIN L : \A j \in DOMAIN L : i # j => L[i] # L[j]
           /\ \A i \in DOMAIN L :
                 Len(L[i]) > 3 /\ L[i] \notin common_words /\ Count(ws, L[i]) > 0
           /\ \A i \in DOMAIN L : \A j \in DOMAIN L : i < j => before(L[i], L[j])
           /\ \A w \in Range(ws) \ Range(L) :
                 (Len(w) > 3 /\ w \notin common_words) =>
                     (Len(L) = kw_max /\ \A i \in DOMAIN L : before(L[i], w))

\* C10 witness: three keywords in the text; the most frequent comes first, the
\* two at equal frequency are told apart by first occurrence, and max_keywords
\* leaves the later one out
C10_Witness ==
    /\ pc = "extracted"
    /\ kw_max = 2
    /\ kw_result = wData \o CommaSpace \o wCode
    /\ LET ws == SplitWords(CleanText(kw_text))
       IN /\ Count(ws, wData) = 2 /\ Count(ws, wCode) = 1 /\ Count(ws, wDeep) = 1
          /\ FirstIndex(ws, wCode) < FirstIndex(ws, wData)

---------------------------------------------------------------------------
(* The dataset collector's list                                            *)

DistinctRefs(ds) == \A i, j \in DOMAIN ds : ds[i].ref = ds[j].ref => i = j

\* C13: whatever the search tags return, the same dataset under several tags
\* included, the refs of the list being built and of the persisted collection
\* are pairwise distinct.
C13_DistinctRefs == DistinctRefs(all_datasets) /\ DistinctRefs(kaggle_file)

\* the collection has been persisted with two records, after a dataset came
\* back under a later tag than the one it was collected under
C13_Witness ==
    /\ pc = "processed_data"
    /\ seen_again
    /\ Len(kaggle_file) = 2
    /\ kaggle_count = 2

---------------------------------------------------------------------------
(* load_data                                                               *)

Loaded == "load_data" \in steps

\* C14: load_data returns both collections as the files hold them, or two empty
\* collections; when the repository file loads and the dataset file does not,
\* the repository records are dropped: normalization is given no record and
\* yields no row.
C14_LoadAllOrNothing ==
    Loaded =>
        /\ \/ github_data = github_file /\ kaggle_data = kaggle_file
           \/ github_data = <<>> /\ kaggle_data = <<>>
        /\ load_failure # "none" => github_data = <<>> /\ kaggle_data = <<>>
        /\ load_failure = "kaggle" => github_data = <<>> /\ github_df = <<>>

\* the dataset file failed after the repository file, which holds two records,
\* was loaded, and process_github_data has been called
C14_Witness ==
    /\ load_failure = "kaggle"
    /\ Len(github_file) = 2
    /\ Len(kaggle_file) >= 1
    /\ "process_github_data" \in steps
    /\ github_data = <<>>
    /\ github_df = <<>>

---------------------------------------------------------------------------
(* Two runs of process_data on the same raw files                          *)

BothRunsDone == pc = "done" /\ first_artifacts # NoRun

\* C11: two runs of process_data on the same raw files leave the same artifacts:
\* the same rows in the same order with the same common_keywords strings.
C11_Idempotent == BothRunsDone => artifacts = first_artifacts

---------------------------------------------------------------------------
(* data_quality_check                                                      *)

Checked == pc = "quality_checked"

Classifications == {"FAIL", "WARNING", "PASS", "ERROR"}

\* C12: every CSV file found, the four artifacts among them, has one
\* classification: ERROR if and only if its read raised (the other files are
\* classified all the same), and for a table that was read, FAIL if it has no
\* row, else WARNING if more than 20% of its cells are missing, else PASS.
C12_Classification ==
    Checked =>
        /\ ArtifactNames \subseteq DOMAIN quality_results
        /\ \A f \in DOMAIN quality_results :
              LET q == quality_results[f]
                  df == q.read
                  cells == df.rows * df.cols
              IN /\ q.result \in Classifications
                 /\ q.result = "ERROR" <=> df.raised # ""
                 /\ q.result = "FAIL" <=> df.raised = "" /\ df.rows = 0
                 /\ q.result = "WARNING" <=>
                        df.raised = "" /\ df.rows > 0 /\ 5 * df.isna > cells
                 /\ q.result = "PASS" <=>
                        df.raised = "" /\ df.rows > 0 /\ 5 * df.isna <= cells

\* one artifact could not be read, another has more than 20% of missing cells
\* and a third is classified too; the other file has exactly 20% of missing
\* cells and passes
C12_Witness ==
    /\ Checked
    /\ quality_results["top_github_repos"].result = "ERROR"
    /\ quality_results["top_github_repos"].read.raised = "OSError"
    /\ quality_results["top_kaggle_datasets"].result = "WARNING"
    /\ quality_results["metrics"].result = "PASS"
    /\ "other" \in DOMAIN quality_results
    /\ quality_results["other"].result = "PASS"
    /\ 5 * quality_results["other"].read.isna
          = quality_results["other"].read.rows * quality_results["other"].read.cols

\* a file with a header and no row is read and classified FAIL
C12_WitnessFail ==
    /\ Checked
    /\ "other" \in DOMAIN quality_results
    /\ quality_results["other"].result = "FAIL"
    /\ quality_results["other"].read.cols = MaxColumns

====
